---- MODULE Spec2Model ----
(***************************************************************************)
(* Publish pipeline of the gRPC sum service: RmqService (broker connection *)
(* and channel lifecycle, publish), SumController.add (compute, publish,   *)
(* respond) and bootstrap.                                                 *)
(*                                                                         *)
(* Every `await` of the source is a step boundary; the code between two    *)
(* awaits runs atomically (single-threaded event loop).  The amqplib       *)
(* handles are modelled by two flags: connOpen and chanOpen.  An operation *)
(* issued on a closed handle is rejected by the library; close() leaves    *)
(* the handle closed whether or not it reports an error; closing the       *)
(* connection closes its channel.  Broker faults are inputs of the steps.  *)
(***************************************************************************)
EXTENDS Integers, Sequences, FiniteSets, TLC

\* ------------------------------------------------------------------ bounds
MaxCalls == 2        \* add calls per run
MaxShutdowns == 2    \* onModuleDestroy invocations per run
Spread == 2          \* operands lie within Spread of 0, of INT32_MIN or of INT32_MAX

CallIds == 1..MaxCalls

\* the RPC's operand type: int32 a, int32 b
INT32_MAX == 2147483647
INT32_MIN == -INT32_MAX - 1

\* operands of the single-call specification: around zero and at both ends
\* of the int32 range
Operands ==
  (-Spread..Spread) \cup {INT32_MIN + k : k \in 0..Spread}
                    \cup {INT32_MAX - k : k \in 0..Spread}

\* operand pairs of the concurrent specification: the two end-to-end examples
\* and a pair whose sum is negative and below the int32 range
Requests == {<<5, 3>>, <<-2, 2>>, <<INT32_MIN, -1>>}

QueueNames == {"sum_queue", "other_queue"}

VARIABLES
  conn,           \* RmqService.conn: "null" or "conn"
  channel,        \* RmqService.channel: "null" or "chan"
  connOpen,       \* the Connection handle is open
  chanOpen,       \* the Channel handle is open
  opened,         \* handles created so far: [conns, chans]
  bootPc,         \* bootstrap: "start", "init", "listening", "aborted"
  initPc,         \* onModuleInit: "none", "connect", "createChannel", "done"
  initFail,       \* where onModuleInit failed: "none", "connect", "createChannel"
  initResult,     \* onModuleInit: "pending", "returned", "raised"
  calls,          \* the add calls, by arrival number
  queues,         \* broker queues: queue name -> sequence of messages
  declared,       \* queue declarations issued: set of [queue, durable]
  destroyPc,      \* onModuleDestroy: "idle", "channelClose", "connClose"
  destroyFrom,    \* the running invocation started with init succeeded and no earlier shutdown
  destroyResults, \* completed onModuleDestroy invocations: [outcome, fromReady]
  closePending,   \* the close() the hook awaits: "none", or the handle's state
                  \* when close() was called on it, "open" or "closed"
  closeLog        \* close() calls that settled: [inv, target, ok]

vars == <<conn, channel, connOpen, chanOpen, opened, bootPc, initPc, initFail,
          initResult, calls, queues, declared, destroyPc, destroyFrom,
          destroyResults, closePending, closeLog>>

rmqVars == <<conn, channel, connOpen, chanOpen, opened>>
initVars == <<bootPc, initPc, initFail, initResult>>
destroyVars == <<destroyPc, destroyFrom, destroyResults, closePending, closeLog>>

\* ------------------------------------------------------------ pure functions
Digits == <<"0", "1", "2", "3", "4", "5", "6", "7", "8", "9">>

\* decimal digits of a natural number, most significant first
RECURSIVE NatString(_)
NatString(n) ==
  IF n < 10 THEN <<Digits[n + 1]>>
  ELSE Append(NatString(n \div 10), Digits[(n % 10) + 1])

\* A JavaScript number holding an integer.  The sum of two int32 values needs
\* 33 bits, more than a 32-bit TLC integer holds, so the value v is kept as
\* the pair [q, d] with v = 10 * q + d and 0 <= d <= 9.
ToNum(n) == [q |-> n \div 10, d |-> n % 10]

\* the magnitude of a negative number, in the same form
Magnitude(v) ==
  IF v.d = 0 THEN [q |-> -v.q, d |-> 0] ELSE [q |-> -v.q - 1, d |-> 10 - v.d]

\* the decimal digits of a non-negative number
NumDigits(v) == (IF v.q > 0 THEN NatString(v.q) ELSE <<>>) \o <<Digits[v.d + 1]>>

\* dropping the sign
DecimalStringUnsigned(v) == IF v.q < 0 THEN NumDigits(Magnitude(v)) ELSE NumDigits(v)

\* result.toString(): the characters of the decimal representation
DecimalString(v) ==
  IF v.q < 0 THEN <<"-">> \o NumDigits(Magnitude(v)) ELSE NumDigits(v)

\* the sum wrapped around into the int32 range
JsAddWrapped(a, b) ==
  IF a > 0 /\ b > 0 /\ a > INT32_MAX - b
  THEN ToNum((a - INT32_MAX - 1) + (b - INT32_MAX - 1))
  ELSE IF a < 0 /\ b < 0 /\ a < INT32_MIN - b
  THEN ToNum((a + INT32_MAX + 1) + (b + INT32_MAX + 1))
  ELSE ToNum(a + b)

\* a + b on JavaScript numbers: exact, no wrap at the int32 range
JsAdd(a, b) ==
  LET low == (a % 10) + (b % 10)
  IN [q |-> (a \div 10) + (b \div 10) + (low \div 10), d |-> low % 10]

\* ------------------------------------------------------------------- state
IdleCall ==
  [pc |-> "idle", a |-> 0, b |-> 0, result |-> ToNum(0), err |-> "none",
   resp |-> "none", respResult |-> ToNum(0), respErr |-> "none",
   queue |-> "none", message |-> <<>>,
   viaRpc |-> FALSE, atInit |-> "pending", afterShutdown |-> FALSE,
   ndecl |-> 0, nsend |-> 0, aborted |-> FALSE]

Init ==
  /\ conn = "null"
  /\ channel = "null"
  /\ connOpen = FALSE
  /\ chanOpen = FALSE
  /\ opened = [conns |-> 0, chans |-> 0]
  /\ bootPc = "start"
  /\ initPc = "none"
  /\ initFail = "none"
  /\ initResult = "pending"
  /\ calls = [c \in CallIds |-> IdleCall]
  /\ queues = [q \in QueueNames |-> <<>>]
  /\ declared = {}
  /\ destroyPc = "idle"
  /\ destroyFrom = FALSE
  /\ destroyResults = <<>>
  /\ closePending = "none"
  /\ closeLog = <<>>

ShutdownBegun == destroyPc # "idle" \/ Len(destroyResults) > 0
InitInFlight == initPc \in {"connect", "createChannel"}

\* ------------------------------------------------------- bootstrap and init
\* startup tried again after it was aborted
BootstrapRetry ==
  /\ bootPc \in {"start", "aborted"}
  /\ ~ShutdownBegun
  /\ bootPc' = "init"
  /\ initPc' = "connect"
  /\ initResult' = "pending"
  /\ UNCHANGED <<initFail, rmqVars, calls, queues, declared, destroyVars>>

\* bootstrap(): createMicroservice, then listen(), which runs the module's
\* onModuleInit hook before the server starts to listen.  The hooks run in
\* lifecycle order: onModuleInit runs once and does not start after an
\* onModuleDestroy, and onModuleDestroy does not start while it is in flight.
Bootstrap ==
  /\ bootPc = "start"
  /\ ~ShutdownBegun
  /\ bootPc' = "init"
  /\ initPc' = "connect"
  /\ UNCHANGED <<initFail, initResult, rmqVars, calls, queues, declared, destroyVars>>

\* the catch block without the rethrow
InitCatchSwallow == "returned"

\* catch (err) { console.error(...); throw err; }
InitCatch == "raised"

\* this.conn = await connect(url)
InitConnect(ok) ==
  /\ initPc = "connect"
  /\ IF ok
     THEN /\ conn' = "conn"
          /\ connOpen' = TRUE
          /\ opened' = [opened EXCEPT !.conns = @ + 1]
          /\ initPc' = "createChannel"
          /\ UNCHANGED <<initFail, initResult>>
     ELSE /\ initFail' = "connect"
          /\ initPc' = "done"
          /\ initResult' = InitCatch
          /\ UNCHANGED <<conn, connOpen, opened>>
  /\ UNCHANGED <<channel, chanOpen, bootPc, calls, queues, declared, destroyVars>>

\* this.channel = await this.conn.createChannel()
InitCreateChannel(ok) ==
  /\ initPc = "createChannel"
  /\ initPc' = "done"
  /\ IF ok /\ connOpen
     THEN /\ channel' = "chan"
          /\ chanOpen' = TRUE
          /\ opened' = [opened EXCEPT !.chans = @ + 1]
          /\ initResult' = "returned"
          /\ UNCHANGED initFail
     ELSE /\ initFail' = "createChannel"
          /\ initResult' = InitCatch
          /\ UNCHANGED <<channel, chanOpen, opened>>
  /\ UNCHANGED <<conn, connOpen, bootPc, calls, queues, declared, destroyVars>>

\* await app.listen() settles: the server listens once the hook returned, and
\* bootstrap() rejects (startup aborts) once the hook raised
BootstrapFinish ==
  /\ bootPc = "init"
  /\ initResult # "pending"
  /\ bootPc' = IF initResult = "returned" THEN "listening" ELSE "aborted"
  /\ UNCHANGED <<initPc, initFail, initResult, rmqVars, calls, queues, declared,
                 destroyVars>>

\* ------------------------------------------------------------------ publish
\* publish() entered without the channel check
PublishEnterNoGuard(c, rec, queue, message) ==
  /\ calls' = [calls EXCEPT ![c] =
       [rec EXCEPT !.pc = "declaring", !.queue = queue, !.message = message,
                   !.ndecl = @ + 1]]
  /\ declared' = declared \cup {[queue |-> queue, durable |-> TRUE]}

\* the queue asserted without the durable flag
PublishEnterNonDurable(c, rec, queue, message) ==
  IF channel = "null"
  THEN /\ calls' = [calls EXCEPT ![c] =
            [rec EXCEPT !.pc = "rejected", !.err = "not_initialized"]]
       /\ UNCHANGED declared
  ELSE /\ calls' = [calls EXCEPT ![c] =
            [rec EXCEPT !.pc = "declaring", !.queue = queue, !.message = message,
                        !.ndecl = @ + 1]]
       /\ declared' = declared \cup {[queue |-> queue, durable |-> FALSE]}

\* publish(queue, message) up to its await: the channel check, then
\* channel.assertQueue(queue, {durable: true}) is issued
PublishEnter(c, rec, queue, message) ==
  IF channel = "null"
  THEN /\ calls' = [calls EXCEPT ![c] =
            [rec EXCEPT !.pc = "rejected", !.err = "not_initialized"]]
       /\ UNCHANGED declared
  ELSE /\ calls' = [calls EXCEPT ![c] =
            [rec EXCEPT !.pc = "declaring", !.queue = queue, !.message = message,
                        !.ndecl = @ + 1]]
       /\ declared' = declared \cup {[queue |-> queue, durable |-> TRUE]}

\* the enqueue replacing the queue's content instead of appending to it
EnqueueOverwrite(q, m) == [queues EXCEPT ![q] = <<m>>]

\* the message put at the head of the queue
EnqueueAtHead(q, m) == [queues EXCEPT ![q] = <<m>> \o @]

\* the message accepted and lost
EnqueueDrop(q, m) == queues

\* channel.sendToQueue(queue, Buffer.from(message)) accepted: one message at the tail
Enqueue(q, m) == [queues EXCEPT ![q] = Append(@, m)]

\* the settling of assertQueue and the enqueue, as in publish()
PublishSettle(c, fault) ==
  /\ calls[c].pc = "declaring"
  /\ ~chanOpen => fault = "declare"
  /\ IF fault = "declare"
     THEN /\ calls' = [calls EXCEPT ![c].pc = "rejected",
                 ![c].err = IF chanOpen THEN "declare_rejected" ELSE "channel_closed"]
          /\ UNCHANGED queues
     ELSE IF fault = "enqueue"
     THEN /\ calls' = [calls EXCEPT ![c].pc = "rejected", ![c].nsend = @ + 1,
                                    ![c].err = "enqueue_rejected"]
          /\ UNCHANGED queues
     ELSE /\ calls' = [calls EXCEPT ![c].pc = "resolved", ![c].nsend = @ + 1]
          /\ queues' = [queues EXCEPT ![calls[c].queue] =
                          Append(@, [payload |-> calls[c].message, by |-> c])]
  /\ UNCHANGED <<rmqVars, initVars, declared, destroyVars>>

\* publish() giving up once the caller has gone
PublishContinueCancellable(c, fault) ==
  /\ ~calls[c].aborted
  /\ PublishSettle(c, fault)

\* a declaration pending on a closed channel is never settled
PublishContinueNeedsOpenChannel(c, fault) ==
  /\ chanOpen
  /\ PublishSettle(c, fault)

\* sendToQueue called although assertQueue was rejected
PublishContinueSendAnyway(c, fault) ==
  /\ calls[c].pc = "declaring"
  /\ ~chanOpen => fault = "declare"
  /\ IF fault = "declare"
     THEN /\ calls' = [calls EXCEPT ![c].pc = "rejected", ![c].nsend = @ + 1,
                 ![c].err = IF chanOpen THEN "declare_rejected" ELSE "channel_closed"]
          /\ UNCHANGED queues
     ELSE IF fault = "enqueue"
     THEN /\ calls' = [calls EXCEPT ![c].pc = "rejected", ![c].nsend = @ + 1,
                                    ![c].err = "enqueue_rejected"]
          /\ UNCHANGED queues
     ELSE /\ calls' = [calls EXCEPT ![c].pc = "resolved", ![c].nsend = @ + 1]
          /\ queues' = [queues EXCEPT ![calls[c].queue] =
                          Append(@, [payload |-> calls[c].message, by |-> c])]
  /\ UNCHANGED <<rmqVars, initVars, declared, destroyVars>>

\* publish() after its await: assertQueue settles; on success sendToQueue is
\* called.  fault: "none", "declare" (assertQueue rejects), "enqueue"
\* (sendToQueue throws).  An operation on a closed channel is rejected.
PublishContinue(c, fault) ==
  /\ calls[c].pc = "declaring"
  /\ ~chanOpen => fault = "declare"
  /\ IF fault = "declare"
     THEN /\ calls' = [calls EXCEPT ![c].pc = "rejected",
                 ![c].err = IF chanOpen THEN "declare_rejected" ELSE "channel_closed"]
          /\ UNCHANGED queues
     ELSE IF fault = "enqueue"
     THEN /\ calls' = [calls EXCEPT ![c].pc = "rejected", ![c].nsend = @ + 1,
                                    ![c].err = "enqueue_rejected"]
          /\ UNCHANGED queues
     ELSE /\ calls' = [calls EXCEPT ![c].pc = "resolved", ![c].nsend = @ + 1]
          /\ queues' = Enqueue(calls[c].queue,
                               [payload |-> calls[c].message, by |-> c])
  /\ UNCHANGED <<rmqVars, initVars, declared, destroyVars>>

\* ---------------------------------------------------------------------- add
\* add(data) up to its await: the sum, then publish('sum_queue', result.toString()).
\* Calls are numbered in arrival order.  The handler can be invoked in any
\* lifecycle state; viaRpc records that the call came through the listening
\* server, atInit and afterShutdown record the lifecycle at invocation.
AddCall(c, a, b) ==
  /\ calls[c].pc = "idle"
  /\ \A d \in CallIds : d < c => calls[d].pc # "idle"
  /\ LET result == JsAdd(a, b)
         rec == [calls[c] EXCEPT !.a = a, !.b = b, !.result = result,
                                 !.viaRpc = (bootPc = "listening"),
                                 !.atInit = initResult,
                                 !.afterShutdown = (Len(destroyResults) > 0)]
     IN PublishEnter(c, rec, "sum_queue", DecimalString(result))
  /\ UNCHANGED <<rmqVars, initVars, queues, destroyVars>>

\* The caller aborts the RPC or disconnects while the call awaits its publish.
\* add(data) receives no cancellation signal and registers no handler for
\* one: nothing but the caller's own state changes.
CallerAbort(c) ==
  /\ calls[c].pc = "declaring"
  /\ calls[c].resp = "none"
  /\ ~calls[c].aborted
  /\ calls' = [calls EXCEPT ![c].aborted = TRUE]
  /\ UNCHANGED <<rmqVars, initVars, queues, declared, destroyVars>>

\* add() responding without waiting for publish to settle
AddReturnNoAwait(c) ==
  /\ calls[c].resp = "none"
  /\ calls[c].pc \in {"declaring", "resolved"}
  /\ calls' = [calls EXCEPT ![c].resp = "result", ![c].respResult = calls[c].result]
  /\ UNCHANGED <<rmqVars, initVars, queues, declared, destroyVars>>

\* add() answering with the result whether or not publish failed
AddReturnSwallow(c) ==
  /\ calls[c].resp = "none"
  /\ calls[c].pc \in {"resolved", "rejected"}
  /\ calls' = [calls EXCEPT ![c].resp = "result", ![c].respResult = calls[c].result]
  /\ UNCHANGED <<rmqVars, initVars, queues, declared, destroyVars>>

\* add() after its await: return {result}, or the publish error propagates
AddReturn(c) ==
  /\ calls[c].resp = "none"
  /\ calls[c].pc \in {"resolved", "rejected"}
  /\ IF calls[c].pc = "resolved"
     THEN calls' = [calls EXCEPT ![c].resp = "result",
                                 ![c].respResult = calls[c].result]
     ELSE calls' = [calls EXCEPT ![c].resp = "error", ![c].respErr = calls[c].err]
  /\ UNCHANGED <<rmqVars, initVars, queues, declared, destroyVars>>

\* ----------------------------------------------------------------- shutdown
\* no catch around the two closes
DestroyOutcomeRethrow(err) == IF err THEN "raised" ELSE "returned"

\* try { ... } catch (e) { /* ignore */ }: the hook returns normally
DestroyOutcome(err) == "returned"

DestroyDone(err, fromReady) ==
  /\ destroyPc' = "idle"
  /\ destroyResults' = Append(destroyResults,
        [outcome |-> DestroyOutcome(err), fromReady |-> fromReady])

\* the state of a handle when close() is called on it
HandleAtClose(isOpen) == IF isOpen THEN "open" ELSE "closed"

\* how a pending close may settle: nothing was called (the field was null) and
\* the await just resumes; a close of a handle already closed is rejected
CloseSettles(ok) ==
  /\ closePending = "none" => ok
  /\ closePending = "closed" => ~ok

\* the settled close() call, entered in the log
CloseLogged(target, ok) ==
  IF closePending = "none" THEN closeLog
  ELSE Append(closeLog,
         [inv |-> Len(destroyResults) + 1, target |-> target, ok |-> ok])

\* the channel close left out: the hook goes straight to the connection
DestroyStartSkipChannel ==
  /\ destroyPc = "idle"
  /\ Len(destroyResults) < MaxShutdowns
  /\ ~InitInFlight
  /\ destroyFrom' = (initResult = "returned" /\ Len(destroyResults) = 0)
  /\ destroyPc' = "channelClose"
  /\ closePending' = "none"
  /\ UNCHANGED <<chanOpen, closeLog, destroyResults>>
  /\ UNCHANGED <<conn, channel, connOpen, opened, initVars, calls, queues, declared>>

\* onModuleDestroy() is invoked and runs to its first await:
\* await this.channel?.close().  The close is called on the channel, which from
\* then on rejects every operation, and the hook is suspended until the close
\* settles; with a null field nothing is called and the await just yields.
DestroyStart ==
  /\ destroyPc = "idle"
  /\ Len(destroyResults) < MaxShutdowns
  /\ ~InitInFlight
  /\ destroyFrom' = (initResult = "returned" /\ Len(destroyResults) = 0)
  /\ destroyPc' = "channelClose"
  /\ IF channel = "null"
     THEN closePending' = "none" /\ UNCHANGED chanOpen
     ELSE closePending' = HandleAtClose(chanOpen) /\ chanOpen' = FALSE
  /\ UNCHANGED <<closeLog, destroyResults>>
  /\ UNCHANGED <<conn, channel, connOpen, opened, initVars, calls, queues, declared>>

\* The channel close settles.  A close that raises jumps to the catch block and
\* the hook returns; otherwise the hook runs on to its second await,
\* await this.conn?.close(): the close is called on the connection, which
\* closes its channel with it, and the hook is suspended again.
DestroyChannelClosed(ok) ==
  /\ destroyPc = "channelClose"
  /\ CloseSettles(ok)
  /\ closeLog' = CloseLogged("channel", ok)
  /\ IF ok
     THEN /\ destroyPc' = "connClose"
          /\ IF conn = "null"
             THEN closePending' = "none" /\ UNCHANGED <<connOpen, chanOpen>>
             ELSE /\ closePending' = HandleAtClose(connOpen)
                  /\ connOpen' = FALSE
                  /\ chanOpen' = FALSE
          /\ UNCHANGED destroyResults
     ELSE /\ DestroyDone(TRUE, destroyFrom)
          /\ closePending' = "none"
          /\ UNCHANGED <<connOpen, chanOpen>>
  /\ UNCHANGED <<conn, channel, opened, initVars, calls, queues, declared, destroyFrom>>

\* a close reported on the connection field without the null check
DestroyConnNoNullCheck(ok) ==
  /\ destroyPc = "connClose"
  /\ closePending = "closed" => ~ok
  /\ closeLog' = Append(closeLog,
        [inv |-> Len(destroyResults) + 1, target |-> "conn", ok |-> ok])
  /\ closePending' = "none"
  /\ DestroyDone(~ok, destroyFrom)
  /\ UNCHANGED <<conn, channel, connOpen, chanOpen, opened, initVars, calls,
                 queues, declared, destroyFrom>>

\* The connection close settles and the hook returns, through the catch block
\* when the close raised.
DestroyConn(ok) ==
  /\ destroyPc = "connClose"
  /\ CloseSettles(ok)
  /\ closeLog' = CloseLogged("conn", ok)
  /\ closePending' = "none"
  /\ DestroyDone(~ok, destroyFrom)
  /\ UNCHANGED <<conn, channel, connOpen, chanOpen, opened, initVars, calls,
                 queues, declared, destroyFrom>>

\* ------------------------------------------------------------ specification
Faults == {"none", "declare", "enqueue"}

Next ==
  \/ Bootstrap
  \/ \E ok \in BOOLEAN : InitConnect(ok)
  \/ \E ok \in BOOLEAN : InitCreateChannel(ok)
  \/ BootstrapFinish
  \/ \E c \in CallIds, r \in Requests : AddCall(c, r[1], r[2])
  \/ \E c \in CallIds, fault \in Faults : PublishContinue(c, fault)
  \/ \E c \in CallIds : AddReturn(c)
  \/ DestroyStart
  \/ \E ok \in BOOLEAN : DestroyChannelClosed(ok)
  \/ \E ok \in BOOLEAN : DestroyConn(ok)

Spec == Init /\ [][Next]_vars

\* the steps of the service with one operand pair, Add(5, 3), for every call
StepsOneRequest ==
  \/ Bootstrap
  \/ \E ok \in BOOLEAN : InitConnect(ok)
  \/ \E ok \in BOOLEAN : InitCreateChannel(ok)
  \/ BootstrapFinish
  \/ \E c \in CallIds : AddCall(c, 5, 3)
  \/ \E c \in CallIds, fault \in Faults : PublishContinue(c, fault)
  \/ \E c \in CallIds : AddReturn(c)
  \/ DestroyStart
  \/ \E ok \in BOOLEAN : DestroyChannelClosed(ok)
  \/ \E ok \in BOOLEAN : DestroyConn(ok)

\* callers may abort their calls
NextCancel ==
  \/ StepsOneRequest
  \/ \E c \in CallIds : CallerAbort(c)

SpecCancel == Init /\ [][NextCancel]_vars

\* The broker (or the library, for a closed channel) settles every pending
\* declaration, and the event loop runs every continuation that is ready.
SpecLive ==
  /\ Init
  /\ [][StepsOneRequest]_vars
  /\ \A c \in CallIds : WF_vars(\E fault \in Faults : PublishContinue(c, fault))
  /\ \A c \in CallIds : WF_vars(AddReturn(c))

\* one add call over the operand pairs at the ends of the int32 range
NextArith ==
  \/ Bootstrap
  \/ \E ok \in BOOLEAN : InitConnect(ok)
  \/ \E ok \in BOOLEAN : InitCreateChannel(ok)
  \/ BootstrapFinish
  \/ \E a \in Operands, b \in Operands : AddCall(1, a, b)
  \/ \E fault \in Faults : PublishContinue(1, fault)
  \/ AddReturn(1)

SpecArith == Init /\ [][NextArith]_vars

\* ------------------------------------------------------- checking operators
MessagesBy(q, c) == {i \in 1..Len(queues[q]) : queues[q][i].by = c}

IsDigit(ch) == \E d \in 1..10 : Digits[d] = ch
DigitValue(ch) == (CHOOSE d \in 1..10 : Digits[d] = ch) - 1

RECURSIVE ParseNat(_)
ParseNat(s) ==
  IF s = <<>> THEN 0
  ELSE 10 * ParseNat(SubSeq(s, 1, Len(s) - 1)) + DigitValue(s[Len(s)])

\* a decimal integer literal in canonical form: optional "-", no leading zero, no "-0"
CanonicalDecimal(s) ==
  /\ Len(s) >= 1
  /\ LET body == IF s[1] = "-" THEN Tail(s) ELSE s
     IN /\ Len(body) >= 1
        /\ \A i \in 1..Len(body) : IsDigit(body[i])
        /\ body[1] = "0" => (Len(body) = 1 /\ s[1] # "-")

\* the number a decimal literal denotes, as [q, d]
ParseDecimal(s) ==
  LET body == IF s[1] = "-" THEN Tail(s) ELSE s
      v == [q |-> ParseNat(SubSeq(body, 1, Len(body) - 1)),
            d |-> DigitValue(body[Len(body)])]
  IN IF s[1] = "-" /\ (v.q > 0 \/ v.d > 0)
     THEN (IF v.d = 0 THEN [q |-> -v.q, d |-> 0] ELSE [q |-> -v.q - 1, d |-> 10 - v.d])
     ELSE v

\* v = a + b, stated on the differences so that no intermediate value overflows
IsSum(v, a, b) ==
  /\ v.d \in 0..9
  /\ v.q - (a \div 10) - (b \div 10) \in 0..1
  /\ 10 * (v.q - (a \div 10) - (b \div 10)) + (v.d - (a % 10) - (b % 10)) = 0

ClosesOf(inv) ==
  LET idx == {i \in 1..Len(closeLog) : closeLog[i].inv = inv}
      Pick[S \in SUBSET (1..Len(closeLog))] ==
        IF S = {} THEN <<>>
        ELSE LET m == CHOOSE x \in S : \A y \in S : x <= y
             IN <<closeLog[m].target>> \o Pick[S \ {m}]
  IN Pick[idx]

\* ------------------------------------------------------------------- claims

\* C1: publish-before-respond: an add call has returned {result} only after
\* its publish settled successfully, i.e. its sendToQueue on sum_queue was
\* issued and returned and its message is in the queue; no call has reported
\* success while its publish is outstanding.
C1_PublishBeforeRespond ==
  \A c \in CallIds :
    calls[c].resp = "result" =>
      /\ calls[c].pc = "resolved"
      /\ calls[c].nsend = 1
      /\ MessagesBy("sum_queue", c) # {}

\* a call has got its result while another call's publish is still outstanding
C1_Witness ==
  \E c, d \in CallIds :
    /\ calls[c].resp = "result"
    /\ calls[d].pc = "declaring"
    /\ calls[d].resp = "none"

\* C2: when publish fails (channel unavailable, declaration rejected, enqueue
\* rejected) the add call fails with that publish error and the caller gets no
\* result; the failure never becomes a successful response.
C2_PublishFailureFailsAdd ==
  \A c \in CallIds :
    calls[c].pc = "rejected" =>
      /\ calls[c].err # "none"
      /\ calls[c].resp # "result"
      /\ calls[c].resp = "error" => calls[c].respErr = calls[c].err

\* one call failed with a rejected declaration, another with a rejected enqueue
C2_Witness ==
  \E c, d \in CallIds :
    /\ calls[c].resp = "error" /\ calls[c].respErr = "declare_rejected"
    /\ calls[d].resp = "error" /\ calls[d].respErr = "enqueue_rejected"

\* C3: every add(a, b) that returned its result has exactly one message in
\* sum_queue, whose payload is the canonical decimal string of the returned
\* result, and none in any other queue; Add(5,3) returns 8 with payload "8",
\* Add(-2,2) returns 0 with payload "0".
C3_OneMessagePerSuccess ==
  \A c \in CallIds :
    calls[c].resp = "result" =>
      /\ Cardinality(MessagesBy("sum_queue", c)) = 1
      /\ \A i \in MessagesBy("sum_queue", c) :
           LET p == queues["sum_queue"][i].payload
           IN /\ CanonicalDecimal(p)
              /\ ParseDecimal(p) = calls[c].respResult
              /\ (calls[c].a = 5 /\ calls[c].b = 3) =>
                    (calls[c].respResult = ToNum(8) /\ p = <<"8">>)
              /\ (calls[c].a = -2 /\ calls[c].b = 2) =>
                    (calls[c].respResult = ToNum(0) /\ p = <<"0">>)
      /\ \A q \in QueueNames \ {"sum_queue"} : MessagesBy(q, c) = {}

\* Add(5,3) and Add(-2,2) have both returned
C3_Witness ==
  \E c, d \in CallIds :
    /\ calls[c].resp = "result" /\ calls[c].a = 5 /\ calls[c].b = 3
    /\ calls[d].resp = "result" /\ calls[d].a = -2 /\ calls[d].b = 2

\* C4: when every one of the N add calls had its publish accepted (nothing was
\* rejected), sum_queue holds exactly N messages, one per call, each carrying
\* that call's computed sum, whatever the interleaving of the declare and
\* enqueue steps was.
C4_NoLossNoDuplication ==
  (\A c \in CallIds : calls[c].pc = "resolved") =>
    /\ Len(queues["sum_queue"]) = MaxCalls
    /\ \A c \in CallIds :
         /\ Cardinality(MessagesBy("sum_queue", c)) = 1
         /\ \A i \in MessagesBy("sum_queue", c) :
              IsSum(ParseDecimal(queues["sum_queue"][i].payload), calls[c].a, calls[c].b)

\* all calls were issued on the Ready connection with pairwise distinct
\* operands, all were accepted, and the queue order differs from arrival order
C4_Witness ==
  /\ \A c \in CallIds :
       /\ calls[c].pc = "resolved"
       /\ calls[c].atInit = "returned"
       /\ ~calls[c].afterShutdown
  /\ \A c, d \in CallIds :
       c # d => <<calls[c].a, calls[c].b>> # <<calls[d].a, calls[d].b>>
  /\ Len(queues["sum_queue"]) = MaxCalls
  /\ queues["sum_queue"][1].by # 1

\* C5: a publish invoked before onModuleInit has succeeded, or after an
\* onModuleDestroy has run, fails with the not-initialized error and issues
\* neither a queue declaration nor an enqueue on the channel.
C5_OnlyReadyYieldsChannel ==
  \A c \in CallIds :
    (calls[c].pc # "idle" /\ (calls[c].atInit # "returned" \/ calls[c].afterShutdown)) =>
      /\ calls[c].pc = "rejected"
      /\ calls[c].err = "not_initialized"
      /\ calls[c].ndecl = 0
      /\ calls[c].nsend = 0

\* C6: once onModuleInit has failed (at connect or at createChannel) the
\* channel field stays null, the service is never Ready, and every publish is
\* rejected with the not-initialized error before any broker operation.
C6_InitFailureBlocksPublish ==
  initFail # "none" =>
    /\ channel = "null"
    /\ ~chanOpen
    /\ initResult # "returned"
    /\ declared = {}
    /\ \A q \in QueueNames : queues[q] = <<>>
    /\ \A c \in CallIds :
         calls[c].pc # "idle" =>
           /\ calls[c].pc = "rejected"
           /\ calls[c].err = "not_initialized"
           /\ calls[c].ndecl = 0
           /\ calls[c].nsend = 0

\* the connection was established, createChannel failed, and an add invoked
\* after that failure was answered with the not-initialized error
C6_Witness ==
  /\ initFail = "createChannel"
  /\ conn = "conn"
  /\ \E c \in CallIds :
       /\ calls[c].atInit = "raised"
       /\ calls[c].resp = "error"
       /\ calls[c].respErr = "not_initialized"

\* every completed onModuleDestroy returned normally
ShutdownReturned ==
  \A i \in 1..Len(destroyResults) : destroyResults[i].outcome = "returned"

\* a step of a second or later onModuleDestroy leaves the fields and handles as they were
ShutdownRepeatStep ==
  (Len(destroyResults) >= 1 /\ <<destroyPc, destroyResults>>' # <<destroyPc, destroyResults>>)
    => UNCHANGED <<conn, channel, connOpen, chanOpen>>

\* C7: onModuleDestroy never raises to its caller, in any lifecycle state and
\* also when a close fails, and a repeated invocation leaves the service in
\* the state the first invocation left it in.
C7_ShutdownNeverRaises == []ShutdownReturned /\ [][ShutdownRepeatStep]_vars

\* two invocations completed, the first of which had its channel close fail
C7_Witness ==
  /\ Len(destroyResults) = 2
  /\ \E i \in 1..Len(closeLog) :
       closeLog[i].inv = 1 /\ closeLog[i].target = "channel" /\ ~closeLog[i].ok

\* C8: an onModuleDestroy invoked from Ready has, when it completes, issued a
\* close on the channel first and on the connection second, also when the
\* channel's close raised an error.
C8_ShutdownClosesBoth ==
  \A i \in 1..Len(destroyResults) :
    destroyResults[i].fromReady => ClosesOf(i) = <<"channel", "conn">>

\* C9: a failed onModuleInit raises its error, bootstrap aborts, the server
\* never listens and no add call is handled through it.
C9_InitFailureAbortsStartup ==
  initFail # "none" =>
    /\ initResult = "raised"
    /\ bootPc # "listening"
    /\ \A c \in CallIds : ~calls[c].viaRpc

\* startup was aborted after createChannel failed
C9_Witness == bootPc = "aborted" /\ initFail = "createChannel"

\* C10: an add(a, b) with int32 operands whose publish succeeded returns
\* exactly a + b, without wrap or saturation at the int32 range, and the
\* published payload is the decimal string of the same value.
C10_AddExact ==
  \A c \in CallIds :
    calls[c].resp = "result" =>
      /\ IsSum(calls[c].respResult, calls[c].a, calls[c].b)
      /\ \E i \in MessagesBy("sum_queue", c) :
           /\ CanonicalDecimal(queues["sum_queue"][i].payload)
           /\ IsSum(ParseDecimal(queues["sum_queue"][i].payload), calls[c].a, calls[c].b)

\* INT32_MAX + INT32_MAX returned as 4294967294, above the int32 range
C10_Witness ==
  /\ calls[1].resp = "result"
  /\ calls[1].a = INT32_MAX
  /\ calls[1].b = INT32_MAX
  /\ calls[1].respResult = [q |-> 429496729, d |-> 4]
  /\ \E i \in MessagesBy("sum_queue", 1) :
       queues["sum_queue"][i].payload = <<"4", "2", "9", "4", "9", "6", "7", "2", "9", "4">>

\* C11: each publish call declares the queue durable once, before its enqueue,
\* and makes a single attempt: at most one declaration and one enqueue per
\* call, and a call whose declaration was rejected has issued no enqueue and
\* ends rejected with that error.
C11_DeclareThenEnqueueOnce ==
  /\ \A d \in declared : d.durable
  /\ \A c \in CallIds :
       /\ calls[c].ndecl <= 1
       /\ calls[c].nsend <= 1
       /\ calls[c].nsend = 1 => (calls[c].ndecl = 1 /\ calls[c].pc # "declaring")
       /\ calls[c].pc = "declaring" => (calls[c].ndecl = 1 /\ calls[c].nsend = 0)
       /\ calls[c].err \in {"declare_rejected", "channel_closed"} =>
            (calls[c].pc = "rejected" /\ calls[c].ndecl = 1 /\ calls[c].nsend = 0)

\* a call whose declaration was rejected by the broker was answered with that
\* error, having issued one declaration and no enqueue
C11_Witness ==
  \E c \in CallIds :
    /\ calls[c].resp = "error"
    /\ calls[c].respErr = "declare_rejected"
    /\ calls[c].ndecl = 1
    /\ calls[c].nsend = 0
    /\ MessagesBy("sum_queue", c) = {}

\* a step in which call c's sendToQueue is accepted puts c's message at the
\* tail of sum_queue, behind the messages enqueued before; no other step
\* changes a queue
EnqueueOrderStep ==
  /\ \A c \in CallIds :
       (calls[c].pc = "declaring" /\ calls'[c].pc = "resolved") =>
         queues'["sum_queue"] =
           Append(queues["sum_queue"], [payload |-> calls[c].message, by |-> c])
  /\ (\A c \in CallIds : calls'[c].nsend = calls[c].nsend) => queues' = queues

\* C12: the order of the messages in sum_queue is the order in which the
\* calls' enqueues were issued on the channel; it need not be the order in
\* which the add requests arrived.
C12_QueueOrderIsEnqueueOrder == [][EnqueueOrderStep]_vars

\* the two adds are in the queue in the reverse of their arrival order
C12_Witness ==
  /\ Len(queues["sum_queue"]) >= 2
  /\ queues["sum_queue"][1].by = 2
  /\ queues["sum_queue"][2].by = 1

\* C13: at most one connection and one channel are ever created, and the
\* publishes of the add calls create none: all of them use the one channel.
C13_OneConnectionOneChannel ==
  /\ opened.conns <= 1
  /\ opened.chans <= 1
  /\ opened.chans <= opened.conns
  /\ channel # "null" => opened.chans = 1
  /\ (\E c \in CallIds : calls[c].ndecl > 0) => opened = [conns |-> 1, chans |-> 1]

\* two add calls have published with one connection and one channel created
C13_Witness ==
  /\ opened = [conns |-> 1, chans |-> 1]
  /\ calls[1].pc = "resolved"
  /\ calls[2].pc = "resolved"

\* the channel is opened on an open connection, and a step that closes the
\* connection finds the channel already closed
ChannelWithinConnectionStep ==
  /\ (~chanOpen /\ chanOpen') => connOpen
  /\ (connOpen /\ ~connOpen') => ~chanOpen

\* C14: whenever the channel is open its connection is open: the channel is
\* opened only after the connection, and shutdown closes the channel before
\* it closes the connection.
C14_ChannelImpliesConnection ==
  [](chanOpen => connOpen) /\ [][ChannelWithinConnectionStep]_vars

\* a shutdown has closed the channel and then the connection
C14_Witness ==
  /\ Len(closeLog) = 2
  /\ closeLog[1].target = "channel" /\ closeLog[1].ok
  /\ closeLog[2].target = "conn" /\ closeLog[2].ok
  /\ ~chanOpen /\ ~connOpen

\* C15: onModuleDestroy invoked when onModuleInit was never called, or failed
\* before the connection was established, issues no close and leaves the
\* fields and handles as they were.
C15_ShutdownWithoutConnectionIsNoOp ==
  (ShutdownBegun /\ conn = "null") =>
    /\ closeLog = <<>>
    /\ closePending = "none"
    /\ channel = "null"
    /\ ~connOpen
    /\ ~chanOpen
    /\ opened = [conns |-> 0, chans |-> 0]

\* a shutdown has completed after connect failed
C15_Witness ==
  /\ initFail = "connect"
  /\ Len(destroyResults) >= 1
  /\ destroyPc = "idle"

\* a step that issues a queue declaration leaves every queue's messages as they were
RedeclareStep ==
  (\E c \in CallIds : calls'[c].ndecl > calls[c].ndecl) => queues' = queues

\* C17: every declaration issued names sum_queue with durable = true, so no
\* two declarations differ in durability, and a re-declaration leaves the
\* messages in the queue unchanged.
C17_DurableRedeclarationIsNoOp ==
  /\ [](\A d \in declared : d.queue = "sum_queue" /\ d.durable)
  /\ [](\A d, e \in declared : d.queue = e.queue => d.durable = e.durable)
  /\ [][RedeclareStep]_vars

\* sum_queue has been declared by two calls and holds the first call's message
C17_Witness ==
  /\ calls[1].pc = "resolved"
  /\ calls[2].pc = "declaring"
  /\ calls[1].ndecl = 1 /\ calls[2].ndecl = 1
  /\ Len(queues["sum_queue"]) = 1
  /\ declared = {[queue |-> "sum_queue", durable |-> TRUE]}

\* C18: a failed add call has appended no message to any queue, and a call
\* that has completed has its message in sum_queue if and only if it returned
\* its result.
C18_MessageIffSuccess ==
  \A c \in CallIds :
    /\ calls[c].pc = "rejected" => \A q \in QueueNames : MessagesBy(q, c) = {}
    /\ calls[c].resp # "none" =>
         (MessagesBy("sum_queue", c) # {} <=> calls[c].resp = "result")

\* a call that was awaiting its declaration when shutdown closed the channel
\* failed without a message, and another call succeeded with its message queued
C18_Witness ==
  \E c, d \in CallIds :
    /\ calls[c].resp = "error"
    /\ calls[c].respErr = "channel_closed"
    /\ ~calls[c].afterShutdown
    /\ MessagesBy("sum_queue", c) = {}
    /\ calls[d].resp = "result"
    /\ MessagesBy("sum_queue", d) # {}

\* C19: once an onModuleDestroy has completed, the connection that
\* onModuleInit established is closed, also when createChannel had failed.
C19_ConnectionClosedAfterShutdown ==
  (Len(destroyResults) >= 1 /\ conn # "null") => ~connOpen

\* C16: a caller abort while the add call awaits its publish does not stop
\* it: the pending declaration can still settle and the enqueue follow, a
\* failure of an aborted call is a broker failure, and an aborted call whose
\* publish went through has its message in sum_queue.
C16_AbortDoesNotCancel ==
  \A c \in CallIds :
    calls[c].aborted =>
      /\ calls[c].ndecl = 1
      /\ (calls[c].pc = "declaring" /\ chanOpen) => ENABLED PublishContinue(c, "none")
      /\ calls[c].pc = "declaring" => ENABLED PublishContinue(c, "declare")
      /\ calls[c].pc = "resolved" =>
           (calls[c].nsend = 1 /\ Cardinality(MessagesBy("sum_queue", c)) = 1)

\* a call aborted while it awaited its declaration has its message queued
C16_Witness ==
  \E c \in CallIds :
    /\ calls[c].aborted
    /\ calls[c].pc = "resolved"
    /\ MessagesBy("sum_queue", c) # {}

\* C20: every add call that has started eventually completes, with its result
\* or with an error, when every pending declaration is eventually answered or
\* rejected; this includes the calls awaiting their declaration when
\* onModuleDestroy closes the channel.
C20_EveryAddCompletes ==
  \A c \in CallIds : (calls[c].pc # "idle") ~> (calls[c].resp # "none")

\* a call that awaited its declaration when shutdown closed the channel has
\* completed with an error
C20_Witness ==
  \E c \in CallIds :
    /\ calls[c].atInit = "returned"
    /\ ~calls[c].afterShutdown
    /\ calls[c].err = "channel_closed"
    /\ calls[c].resp = "error"

====
